---------------------------- MODULE Spec2Model ----------------------------
(***************************************************************************)
(* Model of src/App.tsx: the application state store (records, bonus,      *)
(* bonusRate, theme, filter), the tool dispatch of the live session's      *)
(* onmessage callback, and the voice session controller with its audio     *)
(* playback scheduling.                                                    *)
(*                                                                         *)
(* React state is modelled as React keeps it: a committed value per        *)
(* useState hook plus the queue of updates dispatched since the last       *)
(* render.  A setter called with a value or an updater function only       *)
(* enqueues; the Render action applies the queues hook by hook, commits,   *)
(* and then runs the useEffect of lines 27-29 that refreshes stateRef.     *)
(* When the component has no queued update at all, React may run an        *)
(* updater function already inside the setter call (eager state); whether  *)
(* it does depends on internal bookkeeping of the previous render, so it   *)
(* is an input of every event (parameter e).                               *)
(***************************************************************************)
EXTENDS Integers, Sequences, FiniteSets, TLC

VARIABLES
    records, bonus, bonusRate, theme, filter,   \* useState, lines 11-15
    filteredRecords,  \* useMemo, lines 31-38: the list the last render computed
    isVoiceActive, isConnecting,                \* useState, lines 16-17
    pending,          \* updates dispatched to the hooks and not yet rendered
    stateRef,         \* useRef, line 25, refreshed by the effect of lines 27-29
    sent,             \* tool responses sent by the last step that handled a
                      \* message or resumed the reactions of line 212
    toSend,           \* per attempt: the reactions of line 212 waiting for the
                      \* promise of connect to resolve
    lastToolCall,     \* the function calls of the message handled last (line 187)
    uploadLog,        \* the uploadAllPending calls whose updater ran in the last step
    discardedBonus,   \* sum of bonusEarned of the records dropped by setRecords([])
    created,          \* number of records created so far (bounds the run)
    ncalls,           \* function calls and UI operations so far (bounds the run)
    nmsgs,            \* inbound messages handled so far
    clock,            \* outputAudioContext.currentTime, in sample periods
    sess,             \* per start() attempt: how far startVoiceAssistant has got
    nstart,           \* number of start() attempts so far
    sessionRef,       \* useRef, line 24: 0 is null, else the session of attempt n
    awaitingSession,  \* attempts whose onopen ran, suspended at the await of line 233
    processor,        \* window.voiceAssistantProcessor, lines 140-142, 183
    audioContextRef,  \* audioContextRef.current is set (line 152)
    outputAudioContext, \* outputAudioContextRef.current is set (line 153)
    nextStartTimeRef, \* useRef, line 22
    sourcesRef,       \* useRef, line 23: the tracked playback sources
    decoding,         \* onmessage invocations suspended at the await of line 219
    played,           \* every source.start() made so far (line 224), in call order
    nchunk,           \* number of audio messages delivered so far
    stopped,          \* stopVoiceAssistant ran since the last startVoiceAssistant
    restarted         \* the attempts started after the stop of an earlier one

vars == <<records, bonus, bonusRate, theme, filter, filteredRecords,
          isVoiceActive,
          isConnecting, pending, stateRef, sent, toSend, lastToolCall,
          uploadLog, discardedBonus, created, ncalls, nmsgs, clock, sess,
          nstart, sessionRef, awaitingSession, processor, audioContextRef,
          outputAudioContext, nextStartTimeRef, sourcesRef, decoding, played,
          nchunk, stopped, restarted>>

storeVars == <<records, bonus, bonusRate, theme, filter, filteredRecords,
               stateRef, uploadLog,
               discardedBonus>>
audioVars == <<audioContextRef, outputAudioContext, nextStartTimeRef,
               sourcesRef, decoding, played, nchunk>>

-----------------------------------------------------------------------------
(* Bounds of the model *)
MaxRecords == 2     \* addRecord calls in a run
MaxCalls == 3       \* function calls and UI operations in a run
MaxBatch == 2       \* function calls in one toolCall
MaxStarts == 2      \* startVoiceAssistant calls that get past line 148
MaxClock == 1       \* last value of the playback clock
MaxChunks == 2      \* audio messages in a run

(* Program constants *)
InitialBonusRate == 50
BytesPerSample == 2
NumChannels == 1

Undef == "undefined"
GENERAL_OPD == "General OPD"
Departments == {"Cardiology", GENERAL_OPD}
Ids == {"id1", "id2"}
Rates == {-10, 10}

-----------------------------------------------------------------------------
(* Helpers *)
Max(a, b) == IF a >= b THEN a ELSE b
Min(a, b) == IF a <= b THEN a ELSE b

RECURSIVE SumSeq(_)
SumSeq(s) == IF s = <<>> THEN 0 ELSE Head(s) + SumSeq(Tail(s))

Last(s) == s[Len(s)]

SumBonusEarned(list) == SumSeq([i \in DOMAIN list |-> list[i].bonusEarned])

\* count of lines 57-61 with count++ moved out of the if of line 60.
CountMapped(list) == Len(list)

CountPending(list) == Cardinality({i \in DOMAIN list : list[i].status = "pending"})

-----------------------------------------------------------------------------
(* React update queues *)
NoPending == [records |-> <<>>, bonus |-> <<>>, bonusRate |-> <<>>, theme |-> <<>>,
              filter |-> <<>>, isVoiceActive |-> <<>>, isConnecting |-> <<>>]

Clean(p) == p = NoPending

\* A setter called with a plain value.  With no update queued React compares
\* the value with the current state and drops an equal one (e).  A queue of
\* plain values renders to its last value, so only that one is kept.
SetValue(p, hook, cur, v, e) ==
    IF e /\ Clean(p) /\ v = cur THEN p ELSE [p EXCEPT ![hook] = <<v>>]

\* The logical value of a hook: the last value set, or the committed one.
Latest(p, hook, cur) == IF p[hook] = <<>> THEN cur ELSE Last(p[hook])

-----------------------------------------------------------------------------
(* Application state store, lines 41-70 *)

\* data.x || default: an absent or empty field takes the default.
OrDefault(v, d) == IF v = Undef \/ v = "" THEN d ELSE v

\* Lines 42-51 with the bonusEarned of line 50 set to the initial rate.
NewRecordCredited(data, id, now) ==
    [id |-> id,
     patientName |-> OrDefault(data.patientName, "New Patient"),
     patientAge |-> data.patientAge,
     department |-> OrDefault(data.department, GENERAL_OPD),
     observations |-> OrDefault(data.observations, ""),
     timestamp |-> now,
     status |-> "pending",
     bonusEarned |-> InitialBonusRate]

\* Lines 42-51.  id is what generateId() returned, now what Date.now() returned.
NewRecord(data, id, now) ==
    [id |-> id,
     patientName |-> OrDefault(data.patientName, "New Patient"),
     patientAge |-> data.patientAge,
     department |-> OrDefault(data.department, GENERAL_OPD),
     observations |-> OrDefault(data.observations, ""),
     timestamp |-> now,
     status |-> "pending",
     bonusEarned |-> 0]

\* The map of lines 59-65 without the bonusEarned of line 62.
MarkUploadedNoBonus(list, rate) ==
    [i \in DOMAIN list |->
        IF list[i].status = "pending"
        THEN [list[i] EXCEPT !.status = "uploaded"]
        ELSE list[i]]

\* The map of lines 59-65 with an else branch that sets status back to
\* pending instead of returning r.
MarkUploadedOrBack(list, rate) ==
    [i \in DOMAIN list |->
        IF list[i].status = "pending"
        THEN [list[i] EXCEPT !.status = "uploaded", !.bonusEarned = rate]
        ELSE [list[i] EXCEPT !.status = "pending"]]

\* Lines 59-65: the map of the updater of uploadAllPending.
MarkUploaded(list, rate) ==
    [i \in DOMAIN list |->
        IF list[i].status = "pending"
        THEN [list[i] EXCEPT !.status = "uploaded", !.bonusEarned = rate]
        ELSE list[i]]

\* The updater of line 52 written as [...prev, newRecord].
PutLast(rec, prev) == Append(prev, rec)

\* The updater of line 52: [newRecord, ...prev].
Prepend(rec, prev) == <<rec>> \o prev

\* Line 52: setRecords(prev => [newRecord, ...prev]).
addRecord(h, data, id, now) ==
    [h EXCEPT !.pending.records =
        Append(@, [op |-> "add", rec |-> NewRecord(data, id, now)])]

\* What one run of the updater of lines 58-68 did, for a call that returned
\* `returned': the number of records it moved to uploaded, the rate it wrote
\* into them, the rate last set when uploadAllPending was called, and the
\* amount its setBonus adds.
UploadEntry(returned, n, rate, rateAtCall) ==
    [returned |-> returned, transitioned |-> n, rateUsed |-> rate,
     rateAtCall |-> rateAtCall, credited |-> IF n > 0 THEN n * rate ELSE 0]

\* Lines 56-70.  count is read at line 69, right after setRecords returns: it
\* has been incremented only if React ran the updater inside the call, which
\* it can do only when no update is queued.  Otherwise the updater (and the
\* setBonus inside it) runs in the next render.
uploadAllPending(h, e) ==
    LET rate == stateRef.bonusRate
        rateAtCall == Latest(h.pending, "bonusRate", bonusRate)
        count == CountPending(records)
    IN  IF e /\ Clean(h.pending)
        THEN [h EXCEPT
                !.pending.bonus =
                    IF count > 0 /\ bonus + count * rate # bonus
                    THEN Append(@, bonus + count * rate) ELSE @,
                !.pending.records =
                    Append(@, [op |-> "eager", val |-> MarkUploaded(records, rate)]),
                !.uploadLog = Append(@, UploadEntry(count, count, rate, rateAtCall)),
                !.ret = count]
        ELSE [h EXCEPT
                !.pending.records =
                    Append(@, [op |-> "upload", rateAtCall |-> rateAtCall,
                               returned |-> 0]),
                !.ret = 0]

\* The records hook in a render: the queued updates applied in order to the
\* committed list.  acc.credits collects the setBonus updaters queued by the
\* updaters of uploadAllPending that run here (line 66); rate is
\* stateRef.current.bonusRate, which no render changes.
RECURSIVE ApplyRecords(_, _, _)
ApplyRecords(q, acc, rate) ==
    IF q = <<>> THEN acc
    ELSE LET u == Head(q)
             n == CountPending(acc.list)
             next ==
                CASE u.op = "add" -> [acc EXCEPT !.list = Prepend(u.rec, @)]
                  [] u.op = "clear" ->
                        [acc EXCEPT !.list = <<>>,
                                    !.discarded = @ + SumBonusEarned(acc.list)]
                  [] u.op = "eager" -> [acc EXCEPT !.list = u.val]
                  [] u.op = "upload" ->
                        [acc EXCEPT
                            !.list = MarkUploaded(acc.list, rate),
                            !.credits = IF n > 0 THEN Append(@, n * rate) ELSE @,
                            !.log = Append(@, UploadEntry(u.returned, n, rate,
                                                         u.rateAtCall))]
         IN  ApplyRecords(Tail(q), next, rate)

\* The callback of lines 33-37 with || between the two tests: a record is
\* dropped only when it fails both.
KeepsEither(r, f) ==
    \/ ~(f.status # Undef /\ f.status # "" /\ r.status # f.status)
    \/ ~(f.department # Undef /\ f.department # "" /\ r.department # f.department)

\* The callback of lines 33-37; `if (filter.status && ...)' takes undefined
\* and the empty string as no constraint.
Keeps(r, f) ==
    /\ ~(f.status # Undef /\ f.status # "" /\ r.status # f.status)
    /\ ~(f.department # Undef /\ f.department # "" /\ r.department # f.department)

\* Lines 31-38: what useMemo computes in a render with the list and filter f.
Filtered(list, f) == SelectSeq(list, LAMBDA r : Keeps(r, f))

\* What the effect of lines 27-29 stores for the committed state.
Committed == [records |-> records, bonusRate |-> bonusRate, theme |-> theme]

\* A render of App.  React first runs the effect of lines 27-29 if it is
\* still to run for the previous commit; then every hook applies its queue
\* (records before bonus, the order of lines 11-17) and the result is
\* committed.  The effect for the new commit runs in the same task (sync,
\* after a render caused by a click) or in a later one (Effect).
Render ==
    /\ ~Clean(pending)
    /\ LET r == ApplyRecords(pending.records,
                             [list |-> records, credits |-> <<>>, discarded |-> 0,
                              log |-> <<>>],
                             Committed.bonusRate)
       IN  /\ records' = r.list
           /\ bonus' = Latest(pending, "bonus", bonus) + SumSeq(r.credits)
           /\ discardedBonus' = discardedBonus + r.discarded
           /\ uploadLog' = r.log
    /\ bonusRate' = Latest(pending, "bonusRate", bonusRate)
    /\ theme' = Latest(pending, "theme", theme)
    /\ filter' = Latest(pending, "filter", filter)
    /\ filteredRecords' = Filtered(records', filter')
    /\ isVoiceActive' = Latest(pending, "isVoiceActive", isVoiceActive)
    /\ isConnecting' = Latest(pending, "isConnecting", isConnecting)
    /\ \E sync \in BOOLEAN : stateRef' = IF sync THEN Committed' ELSE Committed
    /\ pending' = NoPending
    /\ UNCHANGED <<sent, toSend, lastToolCall, created, ncalls, nmsgs, clock,
                   sess, nstart, sessionRef, awaitingSession, processor,
                   stopped, restarted>>
    /\ UNCHANGED audioVars

\* Lines 27-29, run as a passive effect in a task after the commit.
Effect ==
    /\ stateRef # Committed
    /\ stateRef' = Committed
    /\ UNCHANGED <<records, bonus, bonusRate, theme, filter, filteredRecords,
                   uploadLog,
                   discardedBonus, isVoiceActive, isConnecting, pending, sent,
                   toSend, lastToolCall, created, ncalls, nmsgs, clock, sess,
                   nstart, sessionRef, awaitingSession, processor, stopped,
                   restarted>>
    /\ UNCHANGED audioVars

-----------------------------------------------------------------------------
(* Tool dispatch, lines 186-214 *)

NoArgs == [patientName |-> Undef, patientAge |-> 0, department |-> Undef,
           observations |-> Undef, theme |-> Undef, status |-> Undef, rate |-> 0]

\* The function calls a message can carry: the six declared actions of
\* lines 73-131 with a few argument values each, and an undeclared name.
CallKinds ==
    {[name |-> "add_record", args |-> [NoArgs EXCEPT !.patientName = "A"]],
     [name |-> "add_record",
      args |-> [NoArgs EXCEPT !.department = "Cardiology", !.patientAge = 7]]}
    \cup {[name |-> "set_ui_theme", args |-> [NoArgs EXCEPT !.theme = t]] :
            t \in {"dark"}}
    \cup {[name |-> "apply_filter",
           args |-> [NoArgs EXCEPT !.status = "uploaded", !.department = "all"]],
          [name |-> "apply_filter",
           args |-> [NoArgs EXCEPT !.department = "Cardiology"]],
          [name |-> "apply_filter",
           args |-> [NoArgs EXCEPT !.status = "pending",
                                   !.department = "Cardiology"]],
          [name |-> "apply_filter", args |-> [NoArgs EXCEPT !.status = "all"]]}
    \cup {[name |-> "set_bonus_rate", args |-> [NoArgs EXCEPT !.rate = r]] :
            r \in Rates}
    \cup {[name |-> "upload_and_earn", args |-> NoArgs],
          [name |-> "clear_all_data", args |-> NoArgs],
          [name |-> "delete_record", args |-> NoArgs]}

\* The toolCall batches of at most `room' function calls.
Batches(room) ==
    UNION {[1..k -> CallKinds] : k \in 1..Max(0, Min(MaxBatch, room))}

CountAdds(calls) == Cardinality({i \in DOMAIN calls : calls[i].name = "add_record"})

\* The confirmation strings of lines 188-210: the fixed text, the string
\* interpolated into it and the number interpolated into it.
Result(text, str, num) == <<text, str, num>>

\* Line 188: the confirmation a call starts with.
DoneResult == Result("Done", "", 0)

\* Lines 197-200: the sentinel "all" becomes undefined.
FilterOf(args) ==
    [status |-> IF args.status = "all" THEN Undef ELSE args.status,
     department |-> IF args.department = "all" THEN Undef ELSE args.department]

DeclaredNames == {"add_record", "set_ui_theme", "apply_filter", "set_bonus_rate",
                  "upload_and_earn", "clear_all_data"}

\* The if / else-if chain of lines 189-211 with a final plain else.
BranchFallsThrough(name) ==
    IF name \in DeclaredNames \ {"clear_all_data"} THEN name ELSE "clear_all_data"

\* The branch of the if / else-if chain of lines 189-211 that a name takes.
Branch(name) == IF name \in DeclaredNames THEN name ELSE "none"

\* Lines 188-212 for one function call fc, the i-th of its message.
HandleCall(h, fc, i, id, now, e) ==
    LET respond(g, result) ==
            [g EXCEPT !.sent = Append(@, [id |-> fc.id, name |-> fc.name,
                                          result |-> result])]
        branch == Branch(fc.name)
    IN  CASE branch = "add_record" ->
                respond(addRecord(h, fc.args, id, now),
                        Result("Record added successfully.", "", 0))
          [] branch = "set_ui_theme" ->
                respond([h EXCEPT !.pending =
                            SetValue(@, "theme", theme, fc.args.theme, e)],
                        Result("Theme updated to", fc.args.theme, 0))
          [] branch = "apply_filter" ->
                respond([h EXCEPT !.pending.filter = <<FilterOf(fc.args)>>],
                        Result("Filters applied.", "", 0))
          [] branch = "set_bonus_rate" ->
                respond([h EXCEPT !.pending =
                            SetValue(@, "bonusRate", bonusRate, fc.args.rate, e)],
                        Result("Bonus rate updated to", "", fc.args.rate))
          [] branch = "upload_and_earn" ->
                LET g == uploadAllPending(h, e)
                IN  respond(g, Result("Uploaded", "", g.ret))
          [] branch = "clear_all_data" ->
                respond([h EXCEPT !.pending.records = Append(@, [op |-> "clear"])],
                        Result("All records cleared.", "", 0))
          [] OTHER -> respond(h, DoneResult)

\* The loop of line 187 run from its last call to its first.
RECURSIVE HandleCallsReversed(_, _, _, _, _, _)
HandleCallsReversed(h, calls, i, ids, now, e) ==
    IF i > Len(calls) THEN h
    ELSE HandleCall(HandleCallsReversed(h, calls, i + 1, ids, now, e),
                    calls[i], i, ids[i], now, e)

\* The loop of line 187 over calls[i..], ids[j] being the id generateId()
\* returns for the j-th call.
RECURSIVE HandleCalls(_, _, _, _, _, _)
HandleCalls(h, calls, i, ids, now, e) ==
    IF i > Len(calls) THEN h
    ELSE HandleCalls(HandleCall(h, calls[i], i, ids[i], now, e),
                     calls, i + 1, ids, now, e)

Handler == [pending |-> pending, sent |-> <<>>, uploadLog |-> <<>>, ret |-> 0]

-----------------------------------------------------------------------------
(* Voice session controller, lines 133-235 *)

Attempts == 1..MaxStarts

\* A session exists from ai.live.connect (line 156) until it is closed.
OpenSessions == {n \in Attempts : sess[n] \in {"connecting", "open"}}

\* Lines 133-145, run when the sessions are in the states s0.
stopVoiceAssistant(s0, e) ==
    /\ pending' = SetValue(SetValue(pending, "isVoiceActive", isVoiceActive, FALSE, e),
                           "isConnecting", isConnecting, FALSE, e)
    /\ sess' = IF sessionRef # 0 /\ s0[sessionRef] = "open"
               THEN [s0 EXCEPT ![sessionRef] = "closing"] ELSE s0
    /\ sessionRef' = 0
    /\ UNCHANGED awaitingSession
    /\ processor' = IF processor = "connected" THEN "disconnected" ELSE processor
    /\ sourcesRef' = {}
    /\ stopped' = TRUE
    /\ UNCHANGED restarted

\* The stop control of the UI.
UIStop ==
    /\ \E e \in BOOLEAN : stopVoiceAssistant(sess, e)
    /\ UNCHANGED storeVars
    /\ UNCHANGED <<isVoiceActive, isConnecting, sent, toSend, lastToolCall,
                   created, ncalls, nmsgs, clock, nstart, audioContextRef,
                   outputAudioContext, nextStartTimeRef, decoding, played,
                   nchunk>>

\* The lines of the try block at which startVoiceAssistant can throw before
\* it first awaits: the constructors of lines 151-153 and the call of line
\* 154.  0 stands for no throw.
ThrowPoints == {0, 151, 152, 153, 154}

\* Lines 147-154, up to the await of getUserMedia, or up to the catch of line
\* 234 when a line of the try block throws.  isVoiceActive is the value of
\* the render whose click handler runs.  At most `limit' attempts.
startVoiceAssistant(limit) ==
    /\ isVoiceActive \/ nstart < limit
    /\ \E e \in BOOLEAN, threw \in ThrowPoints :
        IF isVoiceActive
        THEN /\ threw = 0
             /\ stopVoiceAssistant(sess, e)
             /\ UNCHANGED <<nstart, audioContextRef, outputAudioContext>>
        ELSE /\ threw = 152 => ~audioContextRef
             /\ threw = 153 => ~outputAudioContext
             /\ pending' =
                  LET p == SetValue(pending, "isConnecting", isConnecting, TRUE, e)
                  IN  IF threw = 0 THEN p
                      ELSE SetValue(p, "isConnecting", isConnecting, FALSE, e)
             /\ nstart' = nstart + 1
             /\ sess' = [sess EXCEPT ![nstart + 1] =
                            IF threw = 0 THEN "mic" ELSE "failed"]
             /\ audioContextRef' = (audioContextRef \/ threw \notin {151, 152})
             /\ outputAudioContext' =
                  (outputAudioContext \/ threw \notin {151, 152, 153})
             /\ stopped' = FALSE
             /\ restarted' = IF stopped /\ nstart > 0
                             THEN restarted \cup {nstart + 1} ELSE restarted
             /\ UNCHANGED <<sessionRef, awaitingSession, processor,
                            sourcesRef>>
    /\ UNCHANGED storeVars
    /\ UNCHANGED <<isVoiceActive, isConnecting, sent, toSend, lastToolCall,
                   created, ncalls, nmsgs, clock, nextStartTimeRef, decoding,
                   played, nchunk>>

\* getUserMedia resolves and line 156 opens the session.
MicGranted(n) ==
    /\ sess[n] = "mic"
    /\ sess' = [sess EXCEPT ![n] = "connecting"]
    /\ UNCHANGED storeVars
    /\ UNCHANGED audioVars
    /\ UNCHANGED <<isVoiceActive, isConnecting, pending, sent, toSend,
                   lastToolCall, created, ncalls, nmsgs, clock, nstart,
                   sessionRef, awaitingSession, processor, stopped,
                   restarted>>

\* getUserMedia rejects, or connect throws: the catch of line 234.
StartFailed(n) ==
    /\ sess[n] \in {"mic", "connecting"}
    /\ sess' = [sess EXCEPT ![n] = "failed"]
    /\ \E e \in BOOLEAN :
        pending' = SetValue(pending, "isConnecting", isConnecting, FALSE, e)
    /\ UNCHANGED storeVars
    /\ UNCHANGED audioVars
    /\ UNCHANGED <<isVoiceActive, isConnecting, sent, toSend, lastToolCall,
                   created, ncalls, nmsgs, clock, nstart, sessionRef,
                   awaitingSession, processor, stopped, restarted>>

\* The session opens: onopen (lines 170-184).  startVoiceAssistant is still
\* suspended at the await of line 233.
OnOpen(n) ==
    /\ sess[n] = "connecting"
    /\ sess' = [sess EXCEPT ![n] = "open"]
    /\ \E e \in BOOLEAN :
        pending' = SetValue(SetValue(pending, "isVoiceActive", isVoiceActive, TRUE, e),
                            "isConnecting", isConnecting, FALSE, e)
    /\ processor' = "connected"
    /\ awaitingSession' = awaitingSession \cup {n}
    /\ UNCHANGED storeVars
    /\ UNCHANGED audioVars
    /\ UNCHANGED <<isVoiceActive, isConnecting, sent, toSend, lastToolCall,
                   created, ncalls, nmsgs, clock, nstart, sessionRef, stopped,
                   restarted>>

\* The promise of connect resolves.  Its reactions run in the order they
\* were added: line 233 first (startVoiceAssistant resumes and stores the
\* session, whatever has happened to it meanwhile), then the sendToolResponse
\* calls of line 212 that the messages handled so far have added.
SessionStored(n) ==
    /\ n \in awaitingSession
    /\ awaitingSession' = awaitingSession \ {n}
    /\ sessionRef' = n
    /\ sent' = toSend[n]
    /\ toSend' = [toSend EXCEPT ![n] = <<>>]
    /\ UNCHANGED storeVars
    /\ UNCHANGED audioVars
    /\ UNCHANGED <<isVoiceActive, isConnecting, pending, lastToolCall,
                   created, ncalls, nmsgs, clock, sess, nstart, processor,
                   stopped, restarted>>

\* Line 229: the session reports an error; its close event follows.
OnError(n) ==
    /\ sess[n] \in {"connecting", "open"}
    /\ \E e \in BOOLEAN : stopVoiceAssistant([sess EXCEPT ![n] = "closing"], e)
    /\ UNCHANGED storeVars
    /\ UNCHANGED <<isVoiceActive, isConnecting, sent, toSend, lastToolCall,
                   created, ncalls, nmsgs, clock, nstart, audioContextRef,
                   outputAudioContext, nextStartTimeRef, decoding, played,
                   nchunk>>

\* Line 230: the close event of a session, closed by the remote end or by
\* the close() of line 137.
OnClose(n) ==
    /\ sess[n] \in {"connecting", "open", "closing"}
    /\ \E e \in BOOLEAN : stopVoiceAssistant([sess EXCEPT ![n] = "closed"], e)
    /\ UNCHANGED storeVars
    /\ UNCHANGED <<isVoiceActive, isConnecting, sent, toSend, lastToolCall,
                   created, ncalls, nmsgs, clock, nstart, audioContextRef,
                   outputAudioContext, nextStartTimeRef, decoding, played,
                   nchunk>>

\* The playable buffer of a payload of `bytes' bytes of 16-bit PCM: its
\* duration in sample periods.
BufferDuration(bytes) == bytes \div (BytesPerSample * NumChannels)

\* The id the service gives the i-th function call of its k-th message.
CallId(k, i) == <<k, i>>

\* The next message of the session with the calls b: fc.id, fc.name, fc.args.
WithIds(b) ==
    [i \in DOMAIN b |->
        [id |-> CallId(nmsgs + 1, i), name |-> b[i].name, args |-> b[i].args]]

ToolMessages(room) ==
    {[toolCall |-> WithIds(b), audioBytes |-> 0] : b \in Batches(room)}
AudioMessages == {[toolCall |-> <<>>, audioBytes |-> n] : n \in {2, 4}}
IdChoices(calls) ==
    {ids \in [1..MaxBatch -> Ids] :
        \A i \in 1..MaxBatch :
            (i > Len(calls) \/ calls[i].name # "add_record") => ids[i] = "id1"}

\* Lines 185-219: onmessage for message m of session n, up to the await of
\* line 219.  The sendToolResponse of line 212 is a reaction of the promise
\* of connect: it runs in the microtasks that end this step when the promise
\* has resolved, and waits for SessionStored when it has not.
OnMessage(n, m) ==
    /\ sess[n] = "open"
    /\ ncalls + Len(m.toolCall) <= MaxCalls
    /\ created + CountAdds(m.toolCall) <= MaxRecords
    /\ m.audioBytes > 0 => nchunk < MaxChunks
    /\ \E e \in BOOLEAN, ids \in IdChoices(m.toolCall) :
        LET h == HandleCalls(Handler, m.toolCall, 1, ids, clock, e)
        IN  /\ pending' = h.pending
            /\ IF n \in awaitingSession
               THEN /\ sent' = <<>>
                    /\ toSend' = [toSend EXCEPT ![n] = @ \o h.sent]
               ELSE /\ sent' = h.sent
                    /\ UNCHANGED toSend
            /\ lastToolCall' = m.toolCall
            /\ uploadLog' = h.uploadLog
    /\ ncalls' = ncalls + Len(m.toolCall)
    /\ nmsgs' = nmsgs + 1
    /\ created' = created + CountAdds(m.toolCall)
    /\ IF m.audioBytes > 0 /\ outputAudioContext
       THEN /\ nextStartTimeRef' = Max(nextStartTimeRef, clock)
            /\ nchunk' = nchunk + 1
            /\ decoding' = decoding \cup
                    {[chunk |-> nchunk + 1, bytes |-> m.audioBytes, session |-> n,
                      now |-> clock]}
       ELSE UNCHANGED <<nextStartTimeRef, nchunk, decoding>>
    /\ UNCHANGED <<records, bonus, bonusRate, theme, filter, filteredRecords,
                   stateRef,
                   discardedBonus, isVoiceActive, isConnecting, clock, sess,
                   nstart, sessionRef, awaitingSession, processor,
                   audioContextRef, outputAudioContext, sourcesRef, played,
                   stopped, restarted>>

\* Lines 219-226: decodeAudioDataFixed has resolved for the invocation d.
DecodeDone(d) ==
    /\ d \in decoding
    /\ decoding' = decoding \ {d}
    /\ played' = Append(played, [chunk |-> d.chunk, when |-> nextStartTimeRef,
                                 duration |-> BufferDuration(d.bytes),
                                 at |-> clock, afterStop |-> stopped,
                                 session |-> d.session, now |-> d.now])
    /\ nextStartTimeRef' = nextStartTimeRef + BufferDuration(d.bytes)
    /\ sourcesRef' = sourcesRef \cup {d.chunk}
    /\ UNCHANGED storeVars
    /\ UNCHANGED <<isVoiceActive, isConnecting, pending, sent, toSend,
                   lastToolCall, created, ncalls, nmsgs, clock, sess, nstart,
                   sessionRef, awaitingSession, processor, audioContextRef,
                   outputAudioContext, nchunk, stopped, restarted>>

\* Line 223: the 'ended' event of a source that has played to its end.
Ended(c) ==
    /\ c \in sourcesRef
    /\ \E i \in DOMAIN played :
        /\ played[i].chunk = c
        /\ clock >= Max(played[i].when, played[i].at) + played[i].duration
    /\ sourcesRef' = sourcesRef \ {c}
    /\ UNCHANGED storeVars
    /\ UNCHANGED <<isVoiceActive, isConnecting, pending, sent, toSend,
                   lastToolCall, created, ncalls, nmsgs, clock, sess, nstart,
                   sessionRef, awaitingSession, processor, audioContextRef,
                   outputAudioContext, nextStartTimeRef, decoding, played,
                   nchunk, stopped, restarted>>

\* Time passes.
Tick ==
    /\ clock < MaxClock
    /\ clock' = clock + 1
    /\ UNCHANGED storeVars
    /\ UNCHANGED audioVars
    /\ UNCHANGED <<isVoiceActive, isConnecting, pending, sent, toSend,
                   lastToolCall, created, ncalls, nmsgs, sess, nstart,
                   sessionRef, awaitingSession, processor, stopped,
                   restarted>>

-----------------------------------------------------------------------------
(* The operations of the UI on the store *)

UIData == {[NoArgs EXCEPT !.patientName = "B", !.department = "Cardiology"]}

\* The form of the UI calls addRecord.
UIAddRecord ==
    /\ ncalls < MaxCalls
    /\ created < MaxRecords
    /\ \E data \in UIData, id \in Ids :
        pending' = addRecord(Handler, data, id, clock).pending
    /\ ncalls' = ncalls + 1
    /\ UNCHANGED nmsgs
    /\ created' = created + 1
    /\ uploadLog' = <<>>
    /\ UNCHANGED audioVars
    /\ UNCHANGED <<records, bonus, bonusRate, theme, filter, filteredRecords,
                   stateRef,
                   discardedBonus, isVoiceActive, isConnecting, sent, toSend,
                   lastToolCall, clock, sess, nstart, sessionRef,
                   awaitingSession, processor, stopped, restarted>>

\* The upload control of the UI calls uploadAllPending.
UIUpload ==
    /\ ncalls < MaxCalls
    /\ \E e \in BOOLEAN :
        LET h == uploadAllPending(Handler, e)
        IN  /\ pending' = h.pending
            /\ uploadLog' = h.uploadLog
    /\ ncalls' = ncalls + 1
    /\ UNCHANGED nmsgs
    /\ UNCHANGED audioVars
    /\ UNCHANGED <<records, bonus, bonusRate, theme, filter, filteredRecords,
                   stateRef,
                   discardedBonus, isVoiceActive, isConnecting, sent, toSend,
                   lastToolCall, created, clock, sess, nstart, sessionRef,
                   awaitingSession, processor, stopped, restarted>>

-----------------------------------------------------------------------------
Init ==
    /\ records = <<>>
    /\ bonus = 0
    /\ bonusRate = InitialBonusRate
    /\ theme = "clinical"
    /\ filter = [status |-> Undef, department |-> Undef]
    /\ filteredRecords = <<>>
    /\ isVoiceActive = FALSE
    /\ isConnecting = FALSE
    /\ pending = NoPending
    /\ stateRef = [records |-> <<>>, bonusRate |-> InitialBonusRate,
                   theme |-> "clinical"]
    /\ sent = <<>>
    /\ toSend = [n \in Attempts |-> <<>>]
    /\ lastToolCall = <<>>
    /\ uploadLog = <<>>
    /\ discardedBonus = 0
    /\ created = 0
    /\ ncalls = 0
    /\ nmsgs = 0
    /\ clock = 0
    /\ sess = [n \in Attempts |-> "none"]
    /\ nstart = 0
    /\ sessionRef = 0
    /\ awaitingSession = {}
    /\ processor = "none"
    /\ audioContextRef = FALSE
    /\ outputAudioContext = FALSE
    /\ nextStartTimeRef = 0
    /\ sourcesRef = {}
    /\ decoding = {}
    /\ played = <<>>
    /\ nchunk = 0
    /\ stopped = FALSE
    /\ restarted = {}

\* The store and the tool dispatch, driven by the UI and by the tool calls
\* of one session, from its start to its failure or its close.
Next ==
    \/ UIAddRecord
    \/ UIUpload
    \/ Render
    \/ Effect
    \/ startVoiceAssistant(1)
    \/ UIStop
    \/ \E n \in Attempts : MicGranted(n)
    \/ \E n \in Attempts : StartFailed(n)
    \/ \E n \in Attempts : OnOpen(n)
    \/ \E n \in Attempts : SessionStored(n)
    \/ \E n \in Attempts : OnError(n)
    \/ \E n \in Attempts : OnClose(n)
    \/ \E n \in Attempts, m \in ToolMessages(MaxCalls - ncalls) :
        OnMessage(n, m)

Spec == Init /\ [][Next]_vars

\* The voice session controller: its starts, stops and session events.
NextVoice ==
    \/ startVoiceAssistant(MaxStarts)
    \/ UIStop
    \/ Render
    \/ \E n \in Attempts : MicGranted(n)
    \/ \E n \in Attempts : StartFailed(n)
    \/ \E n \in Attempts : OnOpen(n)
    \/ \E n \in Attempts : SessionStored(n)
    \/ \E n \in Attempts : OnError(n)
    \/ \E n \in Attempts : OnClose(n)

SpecVoice == Init /\ [][NextVoice]_vars

\* The voice session controller with the audio messages of its sessions and
\* their playback.
NextAudio ==
    \/ NextVoice
    \/ Tick
    \/ \E n \in Attempts, m \in AudioMessages : OnMessage(n, m)
    \/ \E d \in decoding : DecodeDone(d)
    \/ \E c \in sourcesRef : Ended(c)

SpecAudio == Init /\ [][NextAudio]_vars

-----------------------------------------------------------------------------
(* Claims on the application state store and the tool dispatch (Spec) *)

\* C1, as claimed: in every reachable state bonus equals the sum of
\* bonusEarned over the records in the list.
C1_BonusEqualsSum == bonus = SumBonusEarned(records)

\* C1, amended: in every reachable state bonus equals the sum of bonusEarned
\* over the records in the list plus the bonusEarned of the records that
\* clear_all_data has discarded.
C1_BonusEqualsSumPlusDiscarded ==
    bonus = SumBonusEarned(records) + discardedBonus

\* A state after clear_all_data has discarded an uploaded record.
C1_Witness == discardedBonus # 0 /\ records = <<>> /\ bonus # 0

\* C7: every uploadAllPending call returns the number of records it moves
\* from pending to uploaded.
C7_ReturnsTransitioned ==
    \A i \in DOMAIN uploadLog : uploadLog[i].returned = uploadLog[i].transitioned

\* C8: the records an uploadAllPending call uploads get the bonus rate last
\* set before the call, and bonus grows by count times that rate.
C8_RateAtCall ==
    \A i \in DOMAIN uploadLog :
        uploadLog[i].transitioned > 0 =>
            /\ uploadLog[i].rateUsed = uploadLog[i].rateAtCall
            /\ uploadLog[i].credited =
                    uploadLog[i].transitioned * uploadLog[i].rateAtCall

\* C9: bonus never decreases from one state to the next.
C9_BonusNeverDecreases == [][bonus' >= bonus]_vars

\* The sendToolResponse calls a step adds: the ones it makes, or the ones it
\* leaves waiting for the promise of connect.
NewResponses ==
    IF \E n \in Attempts : toSend'[n] # toSend[n]
    THEN LET n == CHOOSE k \in Attempts : toSend'[k] # toSend[k]
         IN  SubSeq(toSend'[n], Len(toSend[n]) + 1, Len(toSend'[n]))
    ELSE sent'

\* C10: a message whose tool calls all have undeclared names changes neither
\* the application state nor its queued updates, and every tool call of an
\* undeclared name is answered "Done".
C10_UnknownCallNoMutation ==
    /\ [][(/\ nmsgs' = nmsgs + 1
           /\ lastToolCall' # <<>>
           /\ \A i \in DOMAIN lastToolCall' :
                lastToolCall'[i].name \notin DeclaredNames)
          => /\ pending' = pending
             /\ <<records, bonus, bonusRate, theme, filter>>' =
                    <<records, bonus, bonusRate, theme, filter>>]_vars
    /\ [](\A n \in Attempts : \A i \in DOMAIN (sent \o toSend[n]) :
            LET r == (sent \o toSend[n])[i]
            IN  r.name \notin DeclaredNames => r.result = DoneResult)

\* An undeclared call has been answered while records and queued updates exist.
C10_Witness ==
    /\ sent = <<[id |-> CallId(nmsgs, 1), name |-> "delete_record",
                 result |-> DoneResult]>>
    /\ records # <<>>
    /\ pending.records # <<>>

\* The kind of update each function call of a batch queues on records, in
\* the order of the calls.
CallOps(calls) ==
    LET touching == SelectSeq(calls, LAMBDA fc :
                        fc.name \in {"add_record", "upload_and_earn",
                                     "clear_all_data"})
    IN  [i \in DOMAIN touching |->
            CASE touching[i].name = "add_record" -> "add"
              [] touching[i].name = "upload_and_earn" -> "upload"
              [] OTHER -> "clear"]

\* The kinds of the updates queued on records, in queue order.
QueuedOps(q) == [i \in DOMAIN q |-> IF q[i].op = "eager" THEN "upload" ELSE q[i].op]

\* C11: handling a message adds one response per function call, in the
\* order of the calls, each with the id and the name of its call, after the
\* responses still waiting to be sent; when the promise of connect resolves
\* the waiting responses are sent in that order; and handling a message runs
\* the handler of each of its calls once, in order, after the handlers of the
\* earlier messages (the updates it queues on records are those of its
\* calls, appended in call order to the ones already queued).
C11_OneResultPerCallInOrder ==
    /\ [][nmsgs' = nmsgs + 1 =>
            /\ Len(NewResponses) = Len(lastToolCall')
            /\ \A i \in DOMAIN NewResponses :
                  /\ NewResponses[i].id = lastToolCall'[i].id
                  /\ NewResponses[i].name = lastToolCall'[i].name
            /\ \A n \in Attempts :
                  SubSeq(toSend'[n], 1, Len(toSend[n])) = toSend[n]
            /\ QueuedOps(pending'.records) =
                    QueuedOps(pending.records) \o CallOps(lastToolCall')
            /\ created' = created + CountAdds(lastToolCall')]_vars
    /\ [][\A n \in Attempts :
            (n \in awaitingSession /\ n \notin awaitingSession') =>
                sent' = toSend[n] /\ toSend'[n] = <<>>]_vars
    /\ [](\A n \in Attempts : \A i, j \in DOMAIN toSend[n] :
            i < j => \/ toSend[n][i].id[1] < toSend[n][j].id[1]
                     \/ /\ toSend[n][i].id[1] = toSend[n][j].id[1]
                        /\ toSend[n][i].id[2] < toSend[n][j].id[2])

\* Two messages, of one call and of two, were handled before the promise of
\* connect resolved; the three responses have now been sent together and the
\* updates of all three calls are queued.
C11_Witness ==
    /\ nmsgs = 2
    /\ Len(sent) = 3
    /\ sent[2].name # sent[3].name
    /\ awaitingSession = {}
    /\ Len(pending.records) = 3


Reverse(s) == [i \in DOMAIN s |-> s[Len(s) + 1 - i]]

\* A record without the two fields an upload changes.
Identity(r) == [r EXCEPT !.status = "pending", !.bonusEarned = 0]
Identities(list) == [i \in DOMAIN list |-> Identity(list[i])]

\* The position of the last setRecords([]) in a queue of updates, or 0.
LastClear(q) ==
    LET cs == {i \in DOMAIN q : q[i].op = "clear"}
    IN  IF cs = {} THEN 0 ELSE CHOOSE i \in cs : \A j \in cs : j <= i

\* The records of the addRecord calls queued after position k, in call order.
AddedAfter(q, k) ==
    LET adds == SelectSeq(SubSeq(q, k + 1, Len(q)), LAMBDA u : u.op = "add")
    IN  [i \in DOMAIN adds |-> adds[i].rec]

\* C12: a render leaves the list holding the records of the addRecord calls
\* made since the last render (or since the last clear_all_data among them),
\* newest first, followed by the records it held before in their old order.
C12_ReverseInsertionOrder ==
    [][(pending # NoPending /\ pending' = NoPending) =>
        LET k == LastClear(pending.records)
        IN  Identities(records') =
                Reverse(Identities(AddedAfter(pending.records, k)))
                \o (IF k = 0 THEN Identities(records) ELSE <<>>)]_vars

\* Two records created one after the other are in the list, newest first.
C12_Witness ==
    /\ Len(records) = 2
    /\ records[1].patientName # records[2].patientName
    /\ pending = NoPending

\* C13: no two records of the list have the same id.
C13_UniqueIds ==
    \A i, j \in DOMAIN records : records[i].id = records[j].id => i = j

\* C14: a record with status pending has bonusEarned 0, in the list and in
\* the copy of it the voice handlers read.
C14_PendingHasNoBonus ==
    /\ \A i \in DOMAIN records :
          records[i].status = "pending" => records[i].bonusEarned = 0
    /\ \A i \in DOMAIN stateRef.records :
          stateRef.records[i].status = "pending"
              => stateRef.records[i].bonusEarned = 0

\* A record added after an upload: it is pending next to an uploaded record
\* that carries a bonus.
C14_Witness ==
    /\ Len(records) = 2
    /\ records[1].status = "pending"
    /\ records[2].status = "uploaded"
    /\ records[2].bonusEarned # 0

\* C15: in every step, either the step is a render that runs a
\* clear_all_data, and then the list holds only the records added after it,
\* or every record of the list is still in it, at the same distance from the
\* end, with the same identity; an uploaded record is unchanged, status and
\* bonusEarned included.
C15_StatusOneWay ==
    [][LET k == LastClear(pending.records)
           shift == Len(records') - Len(records)
       IN  IF pending # NoPending /\ pending' = NoPending /\ k > 0
           THEN Len(records') = Len(AddedAfter(pending.records, k))
           ELSE /\ shift >= 0
                /\ \A i \in DOMAIN records :
                      /\ Identity(records'[i + shift]) = Identity(records[i])
                      /\ records[i].status = "uploaded"
                            => records'[i + shift] = records[i]]_vars

\* A second uploadAllPending has run over a record that was already uploaded.
C15_Witness ==
    /\ Len(uploadLog) = 2
    /\ Len(records) = 1
    /\ records[1].status = "uploaded"
    /\ pending = NoPending

AllUploaded(list) == \A i \in DOMAIN list : list[i].status = "uploaded"

OnlyUploads(q) == q # <<>> /\ \A i \in DOMAIN q : q[i].op \in {"upload", "eager"}

\* C16: an uploadAllPending that finds no pending record returns 0 and
\* credits nothing; a render that runs only uploadAllPending updaters over a
\* list without pending records leaves the list, bonus and the discarded
\* amount as they were; and of several uploadAllPending calls with no
\* addRecord between them only the first moves any record.
C16_UploadWithoutPendingIsNoOp ==
    /\ [](\A i \in DOMAIN uploadLog :
            uploadLog[i].transitioned = 0 =>
                uploadLog[i].returned = 0 /\ uploadLog[i].credited = 0)
    /\ [][(pending' = NoPending /\ OnlyUploads(pending.records)) =>
            LET q == pending.records
                new == uploadLog'
            IN  /\ AllUploaded(records) =>
                      /\ records' = records
                      /\ bonus' = bonus
                      /\ discardedBonus' = discardedBonus
                /\ \A i \in DOMAIN new :
                      (i > 1 \/ q[1].op = "eager" \/ AllUploaded(records)) =>
                          new[i].transitioned = 0 /\ new[i].returned = 0]_vars

\* A first upload moved one record and a second one, run over the uploaded
\* record, moved none.
C16_Witness ==
    /\ Len(uploadLog) = 2
    /\ uploadLog[1].transitioned = 1
    /\ uploadLog[2].transitioned = 0
    /\ records # <<>>
    /\ bonus # 0

FilterCalls(calls) == SelectSeq(calls, LAMBDA fc : fc.name = "apply_filter")

RECURSIVE IsSubsequence(_, _)
IsSubsequence(s, t) ==
    IF s = <<>> THEN TRUE
    ELSE IF t = <<>> THEN FALSE
    ELSE IF Head(s) = Head(t) THEN IsSubsequence(Tail(s), Tail(t))
    ELSE IsSubsequence(s, Tail(t))

\* C18: after a message with apply_filter calls the filter to be rendered is
\* the one of the last of them, each field being the argument or unset for an
\* absent argument or "all", whatever the filter was; and once rendered, the
\* view is a subsequence of the list that holds all the records, and only
\* the records, that have the value of every field the filter sets: the
\* whole list when it sets none.
C18_FilterReplacedAndApplied ==
    /\ [](LET set == {k \in {"status", "department"} : filter[k] # Undef}
              fits(r) == \A k \in set : r[k] = filter[k]
          IN  /\ IsSubsequence(filteredRecords, records)
              /\ \A i \in DOMAIN filteredRecords : fits(filteredRecords[i])
              /\ Len(filteredRecords) =
                    Cardinality({i \in DOMAIN records : fits(records[i])})
              /\ set = {} => filteredRecords = records)
    /\ [][(nmsgs' = nmsgs + 1 /\ FilterCalls(lastToolCall') # <<>>) =>
            LET a == Last(FilterCalls(lastToolCall')).args
                f == Latest(pending', "filter", filter')
            IN  /\ f.status = IF a.status \in {Undef, "all"} THEN Undef ELSE a.status
                /\ f.department =
                      IF a.department \in {Undef, "all"} THEN Undef ELSE a.department
                /\ DOMAIN f = {"status", "department"}]_vars

\* Both fields of the filter are set, and of two pending records the view
\* holds the one of the filter's department and leaves out the other.
C18_Witness ==
    /\ filter = [status |-> "pending", department |-> "Cardiology"]
    /\ Len(records) = 2
    /\ records[1].status = "pending" /\ records[2].status = "pending"
    /\ Len(filteredRecords) = 1
    /\ filteredRecords[1].department = "Cardiology"
    /\ Clean(pending)

-----------------------------------------------------------------------------
(* Claims on the voice session controller (SpecVoice) and on the playback   *)
(* of the audio of its sessions (SpecAudio)                                *)

\* C2: at most one session is open at any time.
C2_AtMostOneSession == Cardinality(OpenSessions) <= 1

\* C3: after stopVoiceAssistant and until the next start, isVoiceActive and
\* isConnecting are (set to) false, no session is open and none is retained.
C3_StopLeavesIdle ==
    stopped =>
        /\ Latest(pending, "isVoiceActive", isVoiceActive) = FALSE
        /\ Latest(pending, "isConnecting", isConnecting) = FALSE
        /\ OpenSessions = {}
        /\ sessionRef = 0

\* C4: no source is started at a time earlier than the playback clock, and
\* each source starts no earlier than the end of the one started before it.
C4_NoOverlap ==
    \A i \in DOMAIN played :
        /\ played[i].when >= played[i].at
        /\ i > 1 => played[i].when >= played[i - 1].when + played[i - 1].duration

\* C5: the chunk of an earlier message gets an earlier start time than the
\* chunk of a later message.
C5_DeliveryOrder ==
    \A i, j \in DOMAIN played :
        played[i].chunk < played[j].chunk => played[i].when < played[j].when

\* C6: after stopVoiceAssistant and until the next start no playback source
\* is tracked and none is started.
C6_StopCancelsAudio ==
    /\ stopped => sourcesRef = {}
    /\ \A i \in DOMAIN played : ~played[i].afterStop

\* C17: when an attempt to start fails (getUserMedia rejects or connect
\* throws), the controller is Idle: the last values set for isConnecting and
\* isVoiceActive are false, no session is open or stored in sessionRef, and
\* the state store is as it was.
C17_FailedStartReturnsToIdle ==
    [][(\E n \in Attempts : sess[n] # "failed" /\ sess'[n] = "failed") =>
        /\ Latest(pending', "isConnecting", isConnecting') = FALSE
        /\ Latest(pending', "isVoiceActive", isVoiceActive') = FALSE
        /\ sessionRef' = 0
        /\ OpenSessions' = {}
        /\ UNCHANGED storeVars]_vars

\* The chunks of a session's messages: those being decoded and those started.
ChunksOf(n) ==
    {d.chunk : d \in {x \in decoding : x.session = n}}
        \cup {played[i].chunk : i \in {j \in DOMAIN played : played[j].session = n}}

\* C19: the first chunk of a session started after stopVoiceAssistant, as
\* long as it is the only chunk of that session and no other session is
\* open, starts at the playback clock read when its message arrived.
C19_CursorResetOnStart ==
    \A i \in DOMAIN played :
        (/\ played[i].session \in restarted
         /\ ChunksOf(played[i].session) = {played[i].chunk}
         /\ OpenSessions = {played[i].session})
            => played[i].when = played[i].now

\* C20: the close event of a session that stopVoiceAssistant has closed,
\* delivered after a later attempt has started, leaves that attempt alone:
\* its session is not closed, and the last values set for isVoiceActive and
\* isConnecting, sessionRef and the tracked sources are as they were.
C20_StaleEventLeavesNewSession ==
    [][\A n, m \in Attempts :
        (/\ n < m
         /\ sess[n] = "closing" /\ sess'[n] = "closed"
         /\ sess[m] \in {"mic", "connecting", "open"}) =>
            /\ sess'[m] = sess[m]
            /\ sessionRef' = sessionRef
            /\ Latest(pending', "isVoiceActive", isVoiceActive') =
                    Latest(pending, "isVoiceActive", isVoiceActive)
            /\ Latest(pending', "isConnecting", isConnecting') =
                    Latest(pending, "isConnecting", isConnecting)
            /\ sourcesRef' = sourcesRef]_vars

=============================================================================
